---- MODULE Spec2Model ----
(***************************************************************************)
(* Model of project/asgi_to_wsgi.py: the AsgiToWsgi facade, the per-request *)
(* AsgiToWsgiInstance (build_scope_and_body, run_asgi_app, receive, send)   *)
(* and the environment it talks to: the WSGI caller (environ, response      *)
(* callback) and the ASGI callee (a sequential coroutine that awaits each   *)
(* send()/receive() before its next step, may catch the exceptions they     *)
(* raise, may return or raise at any point).                                *)
(*                                                                         *)
(* Text is a sequence of one-character strings, bytes are a sequence of     *)
(* integers 0..255.  Instances live on a heap indexed by object id; the     *)
(* attributes of an instance are the variables state, body, app_queue.      *)
(***************************************************************************)
EXTENDS Integers, Sequences, FiniteSets, TLC

VARIABLES
    pc,         \* invocation -> position of the WSGI call / of the callee: "idle",
                \* "app" (callee running), "exc" (exception in flight in the callee),
                \* "recv" (suspended in receive), "put" (suspended in send),
                \* "returned", "raised"
    inst,       \* invocation -> object id of its AsgiToWsgiInstance (0: none yet)
    environ,    \* invocation -> the environ it was called with
    scope,      \* invocation -> the scope handed to the callee
    attrs,      \* object -> set of attribute names assigned so far
    state,      \* object -> self.state
    body,       \* object -> self.body (bytearray)
    app_queue,  \* object -> contents of self.app_queue
    callbacks,  \* invocation -> calls of the response callback so far
    enqueued,   \* invocation -> every message it has put on its self.app_queue
    delivered,  \* invocation -> messages receive() returned to the callee
    sent,       \* invocation -> bodies of the response.body messages send() accepted
    started,    \* invocation -> the response.start messages send() accepted
    last,       \* invocation -> the last send(): its number, the message's type and
                \* more_body, self.state before it, the exception it raised
    failed,     \* invocation -> exceptions send() has raised into the callee
    pending,    \* invocation -> exception in flight inside the callee ("none")
    inputRead,  \* invocation -> wsgi.input.read() was called
    result,     \* invocation -> what the facade returned (sequence of chunks)
    error       \* invocation -> exception the facade raised to its caller ("none")

vars == <<pc, inst, environ, scope, attrs, state, body, app_queue, callbacks,
          enqueued, delivered, sent, started, last, failed, pending, inputRead, result, error>>

(***************************************************************************)
(* Bounds of the model.                                                    *)
(***************************************************************************)
MaxSends == 4       \* send() calls one callee makes (single invocation)
MaxSendsConc == 3   \* send() calls one callee makes (interleaved invocations)
MaxItems == 2       \* variables in one environ (scope specification)

Invocations == {"t1", "t2"}
Objects == 1 .. Cardinality(Invocations)

(***************************************************************************)
(* Text and bytes.                                                         *)
(***************************************************************************)
\* str.startswith
StartsWith(s, p) == Len(s) >= Len(p) /\ SubSeq(s, 1, Len(p)) = p

\* s[n:]
DropPrefix(s, n) == SubSeq(s, n + 1, Len(s))

Digits == <<"0", "1", "2", "3", "4", "5", "6", "7", "8", "9">>

RECURSIVE ToStr(_)
\* str(n) of a non-negative int
ToStr(n) == IF n < 10 THEN <<Digits[n + 1]>>
            ELSE ToStr(n \div 10) \o <<Digits[(n % 10) + 1]>>

\* one ASCII byte as a character (the bytes the model uses)
AsciiChar(b) == CASE b = 104 -> "h" [] b = 105 -> "i"
                  [] b = 120 -> "x" [] b = 121 -> "y" [] OTHER -> "?"

\* bytes.decode('utf-8') succeeds: the model's bytes are ASCII or the lone
\* byte 255, which no UTF-8 sequence contains
Decodable(bs) == \A k \in 1 .. Len(bs) : bs[k] < 128

Decode(bs) == [k \in 1 .. Len(bs) |-> AsciiChar(bs[k])]

\* dict.get(key, default)
Get(m, key, default) == IF key \in DOMAIN m THEN m[key] ELSE default

UpperChars == <<"A", "B", "C", "D", "E", "F", "G", "H", "I", "J", "K", "L", "M",
                "N", "O", "P", "Q", "R", "S", "T", "U", "V", "W", "X", "Y", "Z">>
LowerChars == <<"a", "b", "c", "d", "e", "f", "g", "h", "i", "j", "k", "l", "m",
                "n", "o", "p", "q", "r", "s", "t", "u", "v", "w", "x", "y", "z">>

\* the position of character c in the sequence cs (0: not there)
IndexIn(c, cs) == IF \E k \in 1 .. Len(cs) : cs[k] = c
                      THEN CHOOSE k \in 1 .. Len(cs) : cs[k] = c ELSE 0

\* str.lower
Lower(s) == [k \in 1 .. Len(s) |->
                IF IndexIn(s[k], UpperChars) > 0
                    THEN LowerChars[IndexIn(s[k], UpperChars)] ELSE s[k]]

\* str.replace(a, b) for one-character a and b
Replace(s, a, b) == [k \in 1 .. Len(s) |-> IF s[k] = a THEN b ELSE s[k]]

\* the code point of an ASCII character (the characters the model uses)
Ord(c) == IF IndexIn(c, UpperChars) > 0 THEN 64 + IndexIn(c, UpperChars)
          ELSE IF IndexIn(c, LowerChars) > 0 THEN 96 + IndexIn(c, LowerChars)
          ELSE IF IndexIn(c, Digits) > 0 THEN 47 + IndexIn(c, Digits)
          ELSE IF c = "_" THEN 95
          ELSE IF c = "-" THEN 45
          ELSE 63

\* str.encode('utf-8') of ASCII text: one byte per character
Encode(s) == [k \in 1 .. Len(s) |-> Ord(s[k])]

RECURSIVE Concat(_)
\* the concatenation of a sequence of byte sequences
Concat(ss) == IF ss = <<>> THEN <<>> ELSE Head(ss) \o Concat(Tail(ss))

(***************************************************************************)
(* Messages.                                                               *)
(***************************************************************************)
REQUEST == "http.request"
START == "http.response.start"
BODY == "http.response.body"
DISCONNECT == "http.disconnect"

\* the message run_asgi_app seeds the queue with
RequestMessage(b) == [type |-> REQUEST, body |-> b, more_body |-> FALSE]

\* the message send() puts on the queue on body completion
DisconnectMessage == [type |-> DISCONNECT]

\* the bodies a response.body message may carry
Chunks == {<<>>, <<104>>, <<105, 104>>}

\* response.start messages a callee may send: with and without headers, with
\* a header that is not UTF-8, without the status key
StartMessages ==
    { [type |-> START, status |-> 200,
       headers |-> <<(<<(<<120>>), (<<121>>)>>), (<<(<<104>>), (<<105, 104>>)>>)>>],
      [type |-> START, status |-> 404],
      [type |-> START, status |-> 200, headers |-> <<<<(<<120>>), (<<255>>)>>>>],
      [type |-> START] }

\* response.body messages a callee may send: every key is optional
BodyMessages ==
    {[type |-> BODY, body |-> b, more_body |-> mb] : b \in Chunks, mb \in BOOLEAN}
        \cup {[type |-> BODY, body |-> b] : b \in Chunks}
        \cup {[type |-> BODY], [type |-> BODY, more_body |-> TRUE]}

\* kinds send() does not know, and kinds that only the adapter produces
OtherMessages == {[type |-> "http.response.trailers"], [type |-> DISCONNECT]}

Messages == StartMessages \cup BodyMessages \cup OtherMessages

\* the smaller alphabet of the interleaved specification
MessagesConc ==
    { [type |-> START, status |-> 200],
      [type |-> BODY, body |-> <<104>>, more_body |-> TRUE],
      [type |-> BODY, body |-> <<105, 104>>, more_body |-> TRUE],
      [type |-> BODY, body |-> <<104>>],
      [type |-> BODY, body |-> <<105, 104>>, more_body |-> FALSE] }

(***************************************************************************)
(* Environments.                                                           *)
(***************************************************************************)
HTTP11 == <<"H", "T", "T", "P", "/", "1", ".", "1">>
Protocols == {HTTP11, <<"h", "t", "t", "p", "/", "1", ".", "1">>,
              <<"F", "T", "P">>, <<>>}

\* names of environ variables: headers, and names that are not headers
HTTP_X_FOO == <<"H", "T", "T", "P", "_", "X", "_", "F", "O", "O">>
CONTENT_LENGTH == <<"C", "O", "N", "T", "E", "N", "T", "_", "L", "E", "N", "G", "T", "H">>
CONTENT_TYPE == <<"C", "O", "N", "T", "E", "N", "T", "_", "T", "Y", "P", "E">>
HTTP_CONTENT_TYPE == <<"H", "T", "T", "P", "_", "C", "O", "N", "T", "E", "N", "T", "_", "T", "Y", "P", "E">>
HTTP_ONLY == <<"H", "T", "T", "P", "_">>
EnvironNames ==
    {HTTP_X_FOO, CONTENT_LENGTH, CONTENT_TYPE, HTTP_CONTENT_TYPE, HTTP_ONLY,
     <<"R", "E", "Q", "U", "E", "S", "T", "_", "M", "E", "T", "H", "O", "D">>, <<"H", "T", "T", "P", "S">>, <<"h", "t", "t", "p", "_", "x">>}
EnvironValues == {<<"A", "_", "b">>, <<"1">>}

\* environ.items(): the variables in the dict's order, every name once
ItemLists ==
    {its \in UNION {[1 .. n -> [name : EnvironNames, value : EnvironValues]] :
                        n \in 0 .. MaxItems} :
        \A j, k \in 1 .. Len(its) : j # k => its[j].name # its[k].name}

\* environ['wsgi.input']: None, or a stream with its content
WsgiInputs == {[present |-> FALSE, data |-> <<>>],
               [present |-> TRUE, data |-> <<>>],
               [present |-> TRUE, data |-> <<104>>]}

OneHeader == <<[name |-> HTTP_X_FOO, value |-> <<"1">>]>>

Environs == [SERVER_PROTOCOL : Protocols, wsgi_input : WsgiInputs, items : {OneHeader}]

\* the environs of the scope specification: every list of variables
EnvironsScope ==
    [SERVER_PROTOCOL : {HTTP11}, wsgi_input : {[present |-> FALSE, data |-> <<>>]},
     items : ItemLists]

EnvironsConc ==
    [SERVER_PROTOCOL : {HTTP11}, wsgi_input : {[present |-> TRUE, data |-> <<104>>]},
     items : {OneHeader}]

NoEnviron == [SERVER_PROTOCOL |-> <<>>, wsgi_input |-> [present |-> FALSE, data |-> <<>>],
              items |-> <<>>]
NoScope == [type |-> "none"]
NoSend == [n |-> 0, type |-> "none", more_body |-> FALSE, pre |-> "UNSET", exc |-> "none"]

(***************************************************************************)
(* AsgiToWsgi.__call__: one fresh AsgiToWsgiInstance per invocation.        *)
(***************************************************************************)
\* a plausible bug: the facade keeps one instance and reuses it
NewInstance_shared(used) == 1

\* the object id of AsgiToWsgiInstance(self.asgi_application)
NewInstance(used) == CHOOSE o \in Objects \ used : \A p \in Objects \ used : o <= p

(***************************************************************************)
(* AsgiToWsgiInstance.__call__ and build_scope_and_body.                    *)
(***************************************************************************)
\* a plausible bug: the check is made on the wrong prefix
IsHttp_any(env) == TRUE

\* environ["SERVER_PROTOCOL"].startswith("HTTP")
IsHttp(env) == StartsWith(env.SERVER_PROTOCOL, <<"H", "T", "T", "P">>)

\* wsgi_input.read() if wsgi_input is not None else ''
ReadBody(env) == IF env.wsgi_input.present THEN env.wsgi_input.data ELSE <<>>

\* the variable is a header: the three branches that do not continue
IsHeaderName(name) ==
    \/ StartsWith(name, <<"H", "T", "T", "P", "_">>)
    \/ name = CONTENT_LENGTH
    \/ name = CONTENT_TYPE

\* a plausible bug: the underscores are left in the name
CorrectedName_underscores(name) ==
    IF StartsWith(name, <<"H", "T", "T", "P", "_">>)
        THEN Lower(DropPrefix(name, 5))
    ELSE IF name = CONTENT_LENGTH THEN <<"c", "o", "n", "t", "e", "n", "t", "-", "l", "e", "n", "g", "t", "h">>
    ELSE <<"c", "o", "n", "t", "e", "n", "t", "-", "t", "y", "p", "e">>

\* corrected_name of a header variable
CorrectedName(name) ==
    IF StartsWith(name, <<"H", "T", "T", "P", "_">>)
        THEN Replace(Lower(DropPrefix(name, 5)), "_", "-")
    ELSE IF name = CONTENT_LENGTH THEN <<"c", "o", "n", "t", "e", "n", "t", "-", "l", "e", "n", "g", "t", "h">>
    ELSE <<"c", "o", "n", "t", "e", "n", "t", "-", "t", "y", "p", "e">>

RECURSIVE BuildHeaders(_)
\* the loop over environ.items(): one (name, value) pair of bytes appended
\* per header variable
BuildHeaders(items) ==
    IF items = <<>> THEN <<>>
    ELSE (IF IsHeaderName(Head(items).name)
              THEN <<(<<Encode(CorrectedName(Head(items).name)),
                        Encode(Head(items).value)>>)>>
              ELSE <<>>) \o BuildHeaders(Tail(items))

BuildScope(env) == [type |-> "http", http_version |-> DropPrefix(env.SERVER_PROTOCOL, 5),
                    headers |-> BuildHeaders(env.items)]

(***************************************************************************)
(* AsgiToWsgiInstance.send.                                                *)
(***************************************************************************)
\* a plausible bug: response.start accepted in every state
IsStartBranch_anyState(st, m) == m.type = START

\* self.state == HttpState.REQUEST and message_type == "http.response.start"
IsStartBranch(st, m) == st = "REQUEST" /\ m.type = START

\* a plausible bug: response.body accepted before response.start
IsBodyBranch_noStart(st, m) == st \in {"REQUEST", "RESPONSE"} /\ m.type = BODY

\* a plausible bug: response.body accepted after completion
IsBodyBranch_afterComplete(st, m) == st \in {"RESPONSE", "COMPLETE"} /\ m.type = BODY

\* self.state == HttpState.RESPONSE and message_type == "http.response.body"
IsBodyBranch(st, m) == st = "RESPONSE" /\ m.type = BODY

\* a plausible bug: the chunk is put in front of the buffer
Extend_front(bd, chunk) == chunk \o bd

\* self.body.extend(chunk)
Extend(bd, chunk) == bd \o chunk

\* a plausible bug: the test on more_body is inverted
IsLastBody_inverted(m) == Get(m, "more_body", FALSE)

\* not message.get("more_body", False)
IsLastBody(m) == ~Get(m, "more_body", FALSE)

\* asyncio.Queue(): maxsize 0, no bound
QueueMaxSize == 0

\* a plausible bug: the queue is made with maxsize 1
QueueFull_bounded(q) == Len(q) >= 1

\* Queue.full(), on which put() waits
QueueFull(q) == QueueMaxSize > 0 /\ Len(q) >= QueueMaxSize

\* a plausible bug: the disconnect is never put on the queue
PutDisconnect_dropped(q) == q

\* a plausible bug: the disconnect is put in front of the queue
PutDisconnect_front(q) == <<DisconnectMessage>> \o q

\* await self.app_queue.put({"type": "http.disconnect"}) on the unbounded queue
PutDisconnect(q) == Append(q, DisconnectMessage)

\* a plausible bug: the pairs come out in the opposite order
CorrectedHeaders_reversed(hs) ==
    [k \in 1 .. Len(hs) |->
        <<Decode(hs[Len(hs) + 1 - k][1]), Decode(hs[Len(hs) + 1 - k][2])>>]

\* corrected_headers: every (k, v) decoded
CorrectedHeaders(hs) == [k \in 1 .. Len(hs) |-> <<Decode(hs[k][1]), Decode(hs[k][2])>>]

HeadersDecodable(hs) == \A k \in 1 .. Len(hs) : Decodable(hs[k][1]) /\ Decodable(hs[k][2])

\* the arguments of self.response(status, corrected_headers, None)
ResponseCall(m) == [status |-> ToStr(m.status),
                    headers |-> CorrectedHeaders(Get(m, "headers", <<>>)),
                    exc_info |-> "None"]

\* send(message) on an instance with state st, body bd and queue q: the new
\* attributes, the calls of the response callback made, the messages put on
\* the queue, the exception raised ("none": none) and whether send() is left
\* waiting in put() on a full queue.  cbRaises says whether the response
\* callback raises when called.
Send(st, bd, q, m, cbRaises) ==
    LET keep == [state |-> st, body |-> bd, queue |-> q, calls |-> <<>>, puts |-> <<>>,
                 waits |-> FALSE]
    IN  IF IsStartBranch(st, m) THEN
            IF "status" \notin DOMAIN m
                THEN keep @@ [exc |-> "KeyError"]
            ELSE IF ~HeadersDecodable(Get(m, "headers", <<>>))
                THEN keep @@ [exc |-> "UnicodeDecodeError"]
            ELSE IF cbRaises
                THEN [keep EXCEPT !.calls = <<ResponseCall(m)>>] @@ [exc |-> "CallbackError"]
            ELSE [keep EXCEPT !.calls = <<ResponseCall(m)>>, !.state = "RESPONSE"]
                     @@ [exc |-> "none"]
        ELSE IF IsBodyBranch(st, m) THEN
            LET grown == [keep EXCEPT !.body = Extend(bd, Get(m, "body", <<>>))]
            IN  IF IsLastBody(m)
                    THEN IF QueueFull(q)
                             THEN [grown EXCEPT !.state = "COMPLETE", !.waits = TRUE]
                                      @@ [exc |-> "none"]
                             ELSE [grown EXCEPT !.state = "COMPLETE",
                                                !.queue = PutDisconnect(q),
                                                !.puts = <<DisconnectMessage>>]
                                      @@ [exc |-> "none"]
                    ELSE grown @@ [exc |-> "none"]
        ELSE keep @@ [exc |-> "TypeError"]

(***************************************************************************)
(* The state machine.                                                      *)
(***************************************************************************)
Init ==
    /\ pc = [i \in Invocations |-> "idle"]
    /\ inst = [i \in Invocations |-> 0]
    /\ environ = [i \in Invocations |-> NoEnviron]
    /\ scope = [i \in Invocations |-> NoScope]
    /\ attrs = [o \in Objects |-> {}]
    /\ state = [o \in Objects |-> "UNSET"]
    /\ body = [o \in Objects |-> <<>>]
    /\ app_queue = [o \in Objects |-> <<>>]
    /\ callbacks = [i \in Invocations |-> <<>>]
    /\ enqueued = [i \in Invocations |-> <<>>]
    /\ delivered = [i \in Invocations |-> <<>>]
    /\ sent = [i \in Invocations |-> <<>>]
    /\ started = [i \in Invocations |-> <<>>]
    /\ last = [i \in Invocations |-> NoSend]
    /\ failed = [i \in Invocations |-> {}]
    /\ pending = [i \in Invocations |-> "none"]
    /\ inputRead = [i \in Invocations |-> FALSE]
    /\ result = [i \in Invocations |-> <<>>]
    /\ error = [i \in Invocations |-> "none"]

\* The caller invokes the facade with env: AsgiToWsgi.__call__ builds the
\* instance (__init__) and calls it; AsgiToWsgiInstance.__call__ checks the
\* protocol, builds scope and body, and asyncio.run starts run_asgi_app,
\* which runs without suspending up to the callee's first step.
Call(i, env) ==
    /\ pc[i] = "idle"
    /\ LET o == NewInstance({inst[j] : j \in Invocations} \ {0})
       IN  /\ inst' = [inst EXCEPT ![i] = o]
           /\ environ' = [environ EXCEPT ![i] = env]
           /\ body' = [body EXCEPT ![o] = <<>>]
           /\ IF ~IsHttp(env)
                 THEN /\ pc' = [pc EXCEPT ![i] = "raised"]
                      /\ error' = [error EXCEPT ![i] = "ValueError"]
                      /\ attrs' = [attrs EXCEPT ![o] = {"asgi_application", "body"}]
                      /\ UNCHANGED <<scope, state, app_queue, enqueued, inputRead>>
                 ELSE /\ pc' = [pc EXCEPT ![i] = "app"]
                      /\ scope' = [scope EXCEPT ![i] = BuildScope(env)]
                      /\ inputRead' = [inputRead EXCEPT ![i] = env.wsgi_input.present]
                      /\ attrs' = [attrs EXCEPT ![o] =
                             {"asgi_application", "body", "environ", "response",
                              "state", "app_queue"}]
                      /\ state' = [state EXCEPT ![o] = "REQUEST"]
                      /\ app_queue' = [app_queue EXCEPT ![o] = <<RequestMessage(ReadBody(env))>>]
                      /\ enqueued' = [enqueued EXCEPT ![i] = <<RequestMessage(ReadBody(env))>>]
                      /\ UNCHANGED error
    /\ UNCHANGED <<callbacks, delivered, sent, started, last, failed, pending, result>>

\* The callee awaits send(m).
CalleeSend(i, m, cbRaises, maxSends) ==
    /\ pc[i] = "app"
    /\ last[i].n < maxSends
    /\ LET o == inst[i]
           r == Send(state[o], body[o], app_queue[o], m, cbRaises)
       IN  /\ state' = [state EXCEPT ![o] = r.state]
           /\ body' = [body EXCEPT ![o] = r.body]
           /\ app_queue' = [app_queue EXCEPT ![o] = r.queue]
           /\ callbacks' = [callbacks EXCEPT ![i] = @ \o r.calls]
           /\ enqueued' = [enqueued EXCEPT ![i] = @ \o r.puts]
           /\ sent' = [sent EXCEPT ![i] =
                  IF r.exc = "none" /\ m.type = BODY
                      THEN Append(@, Get(m, "body", <<>>)) ELSE @]
           /\ started' = [started EXCEPT ![i] =
                  IF r.exc = "none" /\ m.type = START THEN Append(@, m) ELSE @]
           /\ last' = [last EXCEPT ![i] =
                  [n |-> @.n + 1, type |-> m.type, more_body |-> Get(m, "more_body", FALSE),
                   pre |-> state[o], exc |-> r.exc]]
           /\ failed' = [failed EXCEPT ![i] = IF r.exc = "none" THEN @ ELSE @ \cup {r.exc}]
           /\ pending' = [pending EXCEPT ![i] = r.exc]
           /\ pc' = [pc EXCEPT ![i] = IF r.waits THEN "put"
                                      ELSE IF r.exc = "none" THEN "app" ELSE "exc"]
    /\ UNCHANGED <<inst, environ, scope, attrs, delivered, inputRead, result, error>>

\* The callee catches the exception in flight and goes on.
CalleeCatch(i) ==
    /\ pc[i] = "exc"
    /\ pc' = [pc EXCEPT ![i] = "app"]
    /\ pending' = [pending EXCEPT ![i] = "none"]
    /\ UNCHANGED <<inst, environ, scope, attrs, state, body, app_queue, callbacks,
                   enqueued, delivered, sent, started, last, failed, inputRead, result, error>>

\* a plausible bug: __call__ catches what asyncio.run raises and returns the buffer
CalleePropagate_swallowed(i) ==
    /\ pc[i] = "exc"
    /\ pc' = [pc EXCEPT ![i] = "returned"]
    /\ result' = [result EXCEPT ![i] = <<body[inst[i]]>>]
    /\ UNCHANGED <<inst, environ, scope, attrs, state, body, app_queue, callbacks,
                   enqueued, delivered, sent, started, last, failed, pending, inputRead, error>>

\* The exception leaves the callee: run_asgi_app, asyncio.run and __call__
\* let it through to the caller.
CalleePropagate(i) ==
    /\ pc[i] = "exc"
    /\ pc' = [pc EXCEPT ![i] = "raised"]
    /\ error' = [error EXCEPT ![i] = pending[i]]
    /\ UNCHANGED <<inst, environ, scope, attrs, state, body, app_queue, callbacks,
                   enqueued, delivered, sent, started, last, failed, pending, inputRead, result>>

\* The callee raises an exception of its own, which is then in flight in the
\* callee like one that send() raised.
CalleeRaise(i) ==
    /\ pc[i] = "app"
    /\ pc' = [pc EXCEPT ![i] = "exc"]
    /\ pending' = [pending EXCEPT ![i] = "ApplicationError"]
    /\ UNCHANGED <<inst, environ, scope, attrs, state, body, app_queue, callbacks,
                   enqueued, delivered, sent, started, last, failed, inputRead, result, error>>

\* a plausible bug: receive() answers with a disconnect instead of waiting on
\* the empty queue
CalleeReceive_noWait(i) ==
    /\ pc[i] = "app"
    /\ LET o == inst[i]
       IN  IF app_queue[o] = <<>>
               THEN /\ delivered' = [delivered EXCEPT ![i] = Append(@, DisconnectMessage)]
                    /\ UNCHANGED <<app_queue, pc>>
               ELSE /\ delivered' = [delivered EXCEPT ![i] = Append(@, Head(app_queue[o]))]
                    /\ app_queue' = [app_queue EXCEPT ![o] = Tail(@)]
                    /\ UNCHANGED pc
    /\ UNCHANGED <<inst, environ, scope, attrs, state, body, callbacks, enqueued,
                   sent, started, last, failed, pending, inputRead, result, error>>

\* The callee awaits receive(): app_queue.get() returns the head of the queue,
\* or suspends the callee on the empty queue (nothing but the callee's own
\* send() ever puts a message, so a suspended sequential callee stays so).
CalleeReceive(i) ==
    /\ pc[i] = "app"
    /\ LET o == inst[i]
       IN  IF app_queue[o] = <<>>
               THEN /\ pc' = [pc EXCEPT ![i] = "recv"]
                    /\ UNCHANGED <<app_queue, delivered>>
               ELSE /\ delivered' = [delivered EXCEPT ![i] = Append(@, Head(app_queue[o]))]
                    /\ app_queue' = [app_queue EXCEPT ![o] = Tail(@)]
                    /\ UNCHANGED pc
    /\ UNCHANGED <<inst, environ, scope, attrs, state, body, callbacks, enqueued,
                   sent, started, last, failed, pending, inputRead, result, error>>

\* The callee returns: asyncio.run returns and __call__ returns (bytes(self.body),).
CalleeReturn(i) ==
    /\ pc[i] = "app"
    /\ pc' = [pc EXCEPT ![i] = "returned"]
    /\ result' = [result EXCEPT ![i] = <<body[inst[i]]>>]
    /\ UNCHANGED <<inst, environ, scope, attrs, state, body, app_queue, callbacks,
                   enqueued, delivered, sent, started, last, failed, pending, inputRead, error>>

\* One invocation of the facade, any environ, any callee.
Next ==
    \E i \in {"t1"} :
        \/ \E env \in Environs : Call(i, env)
        \/ \E m \in Messages, cbRaises \in BOOLEAN : CalleeSend(i, m, cbRaises, MaxSends)
        \/ CalleeCatch(i)
        \/ CalleePropagate(i)
        \/ CalleeRaise(i)
        \/ CalleeReceive(i)
        \/ CalleeReturn(i)

Spec == Init /\ [][Next]_vars

\* Two invocations of the same facade, interleaved in any order.
NextConc ==
    \E i \in Invocations :
        \/ \E env \in EnvironsConc : Call(i, env)
        \/ \E m \in MessagesConc : CalleeSend(i, m, FALSE, MaxSendsConc)
        \/ CalleeCatch(i)
        \/ CalleePropagate(i)
        \/ CalleeReceive(i)
        \/ CalleeReturn(i)

SpecConc == Init /\ [][NextConc]_vars

\* The facade called once with any list of environ variables.
NextScope == \E env \in EnvironsScope : Call("t1", env)

SpecScope == Init /\ [][NextScope]_vars

(***************************************************************************)
(* Properties.                                                             *)
(***************************************************************************)
Started(i) == inst[i] # 0
Self(i) == inst[i]
HTTP == <<"H", "T", "T", "P">>

\* the step is a send() of invocation i
SendStep(i) == last'[i].n = last[i].n + 1

\* the step is a receive() of invocation i
ReceiveStep(i) == pc[i] = "app" /\ (pc'[i] = "recv" \/ delivered'[i] # delivered[i])

\* the step is a step of invocation i
StepOf(i) == pc'[i] # pc[i] \/ last'[i] # last[i] \/ delivered'[i] # delivered[i]

\* the request message the environ of invocation i asks for
RequestOf(i) ==
    [type |-> REQUEST,
     body |-> IF environ[i].wsgi_input.present THEN environ[i].wsgi_input.data ELSE <<>>,
     more_body |-> FALSE]

\* C1: self.state changes only REQUEST -> RESPONSE, by a send() of
\* response.start that returned, and RESPONSE -> COMPLETE, by a send() of a
\* response.body with more_body false or absent that returned (and from unset
\* to REQUEST when run_asgi_app begins); nothing leaves COMPLETE.
C1_StateForwardOnly ==
    [][\A o \in Objects : state'[o] # state[o] =>
          \/ state[o] = "UNSET" /\ state'[o] = "REQUEST"
          \/ /\ state[o] = "REQUEST" /\ state'[o] = "RESPONSE"
             /\ \E i \in Invocations :
                   /\ inst[i] = o /\ SendStep(i)
                   /\ last'[i].type = START /\ last'[i].exc = "none"
          \/ /\ state[o] = "RESPONSE" /\ state'[o] = "COMPLETE"
             /\ \E i \in Invocations :
                   /\ inst[i] = o /\ SendStep(i)
                   /\ last'[i].type = BODY /\ ~last'[i].more_body
                   /\ last'[i].exc = "none"]_vars

\* a send() was made after COMPLETE was reached, and the state is COMPLETE
C1_Witness ==
    \E i \in Invocations :
        Started(i) /\ state[Self(i)] = "COMPLETE" /\ last[i].pre = "COMPLETE"

\* C2: a send() whose (state, kind) pair is neither (REQUEST, response.start)
\* nor (RESPONSE, response.body) raises TypeError and leaves self.state,
\* self.body and the queue as they were, puts nothing on the queue and does
\* not call the response callback.
C2_IllegalSendRejected ==
    [][\A i \in Invocations :
          (/\ SendStep(i)
           /\ ~(last'[i].pre = "REQUEST" /\ last'[i].type = START)
           /\ ~(last'[i].pre = "RESPONSE" /\ last'[i].type = BODY))
          => /\ last'[i].exc = "TypeError" /\ pending'[i] = "TypeError"
             /\ last'[i].pre = state[Self(i)]
             /\ state'[Self(i)] = state[Self(i)]
             /\ body'[Self(i)] = body[Self(i)]
             /\ app_queue'[Self(i)] = app_queue[Self(i)]
             /\ enqueued'[i] = enqueued[i]
             /\ callbacks'[i] = callbacks[i]]_vars

\* a second response.start was rejected in RESPONSE while the buffer held bytes
C2_Witness ==
    \E i \in Invocations :
        /\ Started(i) /\ last[i].exc = "TypeError"
        /\ last[i].pre = "RESPONSE" /\ last[i].type = START
        /\ body[Self(i)] # <<>> /\ callbacks[i] # <<>>

\* C3 (as claimed): whenever the facade has returned its chunks, self.state
\* is COMPLETE.
C3_ReturnedOnlyAfterComplete ==
    \A i \in Invocations : pc[i] = "returned" => state[Self(i)] = "COMPLETE"

\* C4 (as claimed): once self.state is COMPLETE, every receive() returns the
\* disconnect message and does not suspend.
C4_AnyReceiveGetsDisconnect ==
    [][\A i \in Invocations :
          (Started(i) /\ state[Self(i)] = "COMPLETE" /\ ReceiveStep(i))
          => /\ pc'[i] = "app"
             /\ delivered'[i] = Append(delivered[i], DisconnectMessage)]_vars

\* C4 (amended): once self.state is COMPLETE, the receive() that follows the
\* delivery of the request message returns the disconnect message and does
\* not suspend; a callee that had not received the request gets the request
\* first, and a receive() after the disconnect was delivered suspends.
C4_ReceiveAfterComplete ==
    [][\A i \in Invocations :
          (Started(i) /\ state[Self(i)] = "COMPLETE" /\ ReceiveStep(i))
          => CASE Len(delivered[i]) = 0 ->
                     pc'[i] = "app" /\ delivered'[i] = <<RequestOf(i)>>
               [] Len(delivered[i]) = 1 ->
                     /\ pc'[i] = "app"
                     /\ delivered'[i] = Append(delivered[i], DisconnectMessage)
               [] OTHER ->
                     pc'[i] = "recv" /\ delivered'[i] = delivered[i]]_vars

\* the callee received the request, completed the body and then received
\* the disconnect
C4_Witness ==
    \E i \in Invocations :
        /\ Started(i) /\ state[Self(i)] = "COMPLETE" /\ pc[i] = "app"
        /\ delivered[i] = <<RequestOf(i), DisconnectMessage>>

\* C5 (as claimed): an invocation in which some send() raised TypeError ends
\* by raising TypeError to the caller and returns no chunks.
C5_ViolationReachesCaller ==
    \A i \in Invocations :
        ("TypeError" \in failed[i] /\ pc[i] \in {"returned", "raised"})
        => pc[i] = "raised" /\ error[i] = "TypeError" /\ result[i] = <<>>

\* C6: self.body is the concatenation, in send order, of the bodies of the
\* response.body messages accepted so far (a missing body is empty), and the
\* facade returns exactly one chunk, equal to it.
C6_BufferIsConcatenation ==
    \A i \in Invocations :
        Started(i) =>
            /\ body[Self(i)] = Concat(sent[i])
            /\ pc[i] = "returned" => result[i] = <<Concat(sent[i])>>

\* three response.body messages, the first two different and not empty, were
\* accepted, the last one completed the body, and the facade returned
C6_Witness ==
    \E i \in Invocations :
        /\ pc[i] = "returned" /\ state[Self(i)] = "COMPLETE"
        /\ Len(sent[i]) = 3
        /\ sent[i][1] # <<>> /\ sent[i][2] # <<>> /\ sent[i][1] # sent[i][2]

\* C7: if self.body is not empty, or a non-empty body was returned to the
\* caller, the response callback has been called in that invocation.
C7_CallbackBeforeBody ==
    \A i \in Invocations :
        Started(i) =>
            ((body[Self(i)] # <<>> \/ (result[i] # <<>> /\ result[i][1] # <<>>))
                => callbacks[i] # <<>>)

\* a non-empty body was returned to the caller
C7_Witness ==
    \E i \in Invocations :
        pc[i] = "returned" /\ result[i] # <<>> /\ result[i][1] # <<>>

\* C8: an invocation whose SERVER_PROTOCOL does not start with "HTTP" raises
\* ValueError and has done nothing else: no scope, no state, no queue, no
\* message, the input not read, the callee not run, the callback not called.
C8_NonHttpFailsFirst ==
    \A i \in Invocations :
        (pc[i] # "idle" /\ ~StartsWith(environ[i].SERVER_PROTOCOL, HTTP))
        => /\ pc[i] = "raised" /\ error[i] = "ValueError"
           /\ scope[i] = NoScope
           /\ "app_queue" \notin attrs[Self(i)] /\ "state" \notin attrs[Self(i)]
           /\ state[Self(i)] = "UNSET" /\ app_queue[Self(i)] = <<>>
           /\ enqueued[i] = <<>> /\ delivered[i] = <<>>
           /\ ~inputRead[i]
           /\ last[i].n = 0
           /\ callbacks[i] = <<>> /\ result[i] = <<>>

\* the facade raised ValueError for "http/1.1" with an input stream present
C8_Witness ==
    \E i \in Invocations :
        /\ pc[i] = "raised" /\ error[i] = "ValueError"
        /\ environ[i].SERVER_PROTOCOL = <<"h", "t", "t", "p", "/", "1", ".", "1">>
        /\ environ[i].wsgi_input.present

\* C9: once run_asgi_app has begun, the messages put on the queue are
\* [request] or [request, disconnect], the request carrying the whole input
\* and more_body false; the disconnect is there only if self.state is
\* COMPLETE; receive() has delivered a prefix of them and the queue holds
\* the rest, in that order.
C9_ChannelIsRequestThenDisconnect ==
    \A i \in Invocations :
        (Started(i) /\ "app_queue" \in attrs[Self(i)]) =>
            /\ enqueued[i] \in {<<RequestOf(i)>>, <<RequestOf(i), DisconnectMessage>>}
            /\ Len(enqueued[i]) = 2 => state[Self(i)] = "COMPLETE"
            /\ enqueued[i] = delivered[i] \o app_queue[Self(i)]

\* both messages were delivered, the request carrying a non-empty input
C9_Witness ==
    \E i \in Invocations :
        /\ Started(i) /\ delivered[i] = <<RequestOf(i), DisconnectMessage>>
        /\ RequestOf(i).body # <<>>

\* C10: interleaved invocations have different instances; a step of one
\* invocation leaves the instance, state, queue and buffer of every other
\* invocation as they were; and a returning invocation returns one chunk,
\* the concatenation of the bodies its own callee sent.
C10_InvocationsIsolated ==
    [][\A i \in Invocations :
          /\ \A j \in Invocations \ {i} :
                (StepOf(j) /\ Started(i)) =>
                    /\ inst'[i] = inst[i] /\ inst'[j] # inst[i]
                    /\ state'[Self(i)] = state[Self(i)]
                    /\ body'[Self(i)] = body[Self(i)]
                    /\ app_queue'[Self(i)] = app_queue[Self(i)]
                    /\ attrs'[Self(i)] = attrs[Self(i)]
          /\ (pc'[i] = "returned" /\ pc[i] # "returned")
                => result'[i] = <<Concat(sent[i])>>]_vars

\* both invocations are running at once, one with bytes buffered and the
\* response open, the other complete with other bytes
C10_Witness ==
    \E i, j \in Invocations :
        /\ i # j /\ pc[i] = "app" /\ pc[j] = "app"
        /\ state[Self(i)] = "RESPONSE" /\ body[Self(i)] # <<>>
        /\ state[Self(j)] = "COMPLETE" /\ body[Self(j)] # body[Self(i)]
        /\ body[Self(j)] # <<>>

\* both invocations have returned, each its own bytes
C10_WitnessReturned ==
    \E i, j \in Invocations :
        /\ i # j /\ pc[i] = "returned" /\ pc[j] = "returned"
        /\ result[i] # result[j] /\ result[i][1] # <<>> /\ result[j][1] # <<>>

\* C11: an exception that leaves the callee is raised to the caller as it is
\* and no chunks are returned; the calls of the response callback made
\* before it stand, self.state and the buffer are not rolled back, and a
\* raised invocation does nothing more.
C11_CalleeErrorPropagates ==
    [][\A i \in Invocations :
          /\ (pc[i] = "exc" /\ pc'[i] \notin {"exc", "app"})
                => /\ pc'[i] = "raised" /\ error'[i] = pending[i]
                   /\ result'[i] = <<>>
                   /\ callbacks'[i] = callbacks[i]
                   /\ state'[Self(i)] = state[Self(i)]
                   /\ body'[Self(i)] = body[Self(i)]
          /\ pc'[i] = "raised" => (error'[i] # "none" /\ result'[i] = <<>>)
          /\ pc[i] = "raised"
                => /\ pc'[i] = "raised" /\ error'[i] = error[i]
                   /\ callbacks'[i] = callbacks[i]]_vars

\* the callee raised after the callback had fired and bytes were buffered:
\* the caller sees a started, incomplete response
C11_Witness ==
    \E i \in Invocations :
        /\ pc[i] = "raised" /\ error[i] = "ApplicationError"
        /\ Len(callbacks[i]) = 1 /\ state[Self(i)] = "RESPONSE"
        /\ body[Self(i)] # <<>> /\ result[i] = <<>>

\* what the response callback is to be called with for an accepted
\* response.start of the model: 200 with the headers x: y and h: ih, or 404
\* with no headers key
C12_ExpectedCall(m) ==
    IF "headers" \in DOMAIN m
        THEN [status |-> <<"2", "0", "0">>,
              headers |-> <<(<<(<<"x">>), (<<"y">>)>>), (<<(<<"h">>), (<<"i", "h">>)>>)>>,
              exc_info |-> "None"]
        ELSE [status |-> <<"4", "0", "4">>, headers |-> <<>>, exc_info |-> "None"]

\* C12: when the callee has returned, no send() has raised and self.state is
\* COMPLETE (one response.start, then response.body messages up to a last
\* one), the response callback was called exactly once, with the status as
\* text, the headers decoded in their order and None, and the facade
\* returned exactly one chunk, the buffer.
C12_EndToEnd ==
    \A i \in Invocations :
        (pc[i] = "returned" /\ failed[i] = {} /\ state[Self(i)] = "COMPLETE")
        => /\ Len(started[i]) = 1
           /\ callbacks[i] = <<C12_ExpectedCall(started[i][1])>>
           /\ Len(result[i]) = 1
           /\ result[i][1] = body[Self(i)]

\* such a run with two headers and two body messages
C12_Witness ==
    \E i \in Invocations :
        /\ pc[i] = "returned" /\ failed[i] = {} /\ state[Self(i)] = "COMPLETE"
        /\ Len(started[i]) = 1 /\ "headers" \in DOMAIN started[i][1]
        /\ Len(sent[i]) = 2 /\ result[i][1] = <<104, 105, 104>>

\* C13: a receive() made after the request message was delivered and before
\* self.state is COMPLETE suspends the callee on the empty queue; a callee
\* suspended in receive() stays suspended: nothing more is put on the queue,
\* nothing is delivered, and the facade neither returns nor raises.
C13_SecondReceiveHangs ==
    [][\A i \in Invocations :
          /\ (/\ Started(i) /\ ReceiveStep(i)
              /\ Len(delivered[i]) = 1 /\ state[Self(i)] # "COMPLETE")
                => /\ pc'[i] = "recv"
                   /\ app_queue'[Self(i)] = <<>>
                   /\ delivered'[i] = delivered[i]
          /\ pc[i] = "recv"
                => /\ pc'[i] = "recv"
                   /\ app_queue'[Self(i)] = <<>>
                   /\ enqueued'[i] = enqueued[i]
                   /\ delivered'[i] = delivered[i]
                   /\ result'[i] = <<>> /\ error'[i] = "none"]_vars

\* the callee is suspended in its second receive(), made after response.start
\* and before the body was complete
C13_Witness ==
    \E i \in Invocations :
        /\ pc[i] = "recv" /\ delivered[i] = <<RequestOf(i)>>
        /\ state[Self(i)] = "RESPONSE" /\ app_queue[Self(i)] = <<>>
        /\ enqueued[i] = <<RequestOf(i)>>

\* the header variables of the model, as a test for SelectSeq
C14_IsHeader(it) ==
    it.name \in {HTTP_X_FOO, CONTENT_LENGTH, CONTENT_TYPE, HTTP_CONTENT_TYPE, HTTP_ONLY}

\* the header name, in bytes, each header variable of the model is to give
C14_NameBytes(name) ==
    CASE name = HTTP_X_FOO -> <<120, 45, 102, 111, 111>>
      [] name = CONTENT_LENGTH -> <<99, 111, 110, 116, 101, 110, 116, 45, 108, 101, 110, 103, 116, 104>>
      [] name = CONTENT_TYPE -> <<99, 111, 110, 116, 101, 110, 116, 45, 116, 121, 112, 101>>
      [] name = HTTP_CONTENT_TYPE -> <<99, 111, 110, 116, 101, 110, 116, 45, 116, 121, 112, 101>>
      [] name = HTTP_ONLY -> <<>>

\* the bytes of the values of the model
C14_ValueBytes(value) == IF value = <<"1">> THEN <<49>> ELSE <<65, 95, 98>>

\* C14: the scope's headers are, in the order of environ.items(), one pair
\* per variable whose name starts with HTTP_ (prefix removed, lowercased,
\* underscores to hyphens) or is CONTENT_LENGTH or CONTENT_TYPE
\* (content-length, content-type), with the value as it was, both as bytes;
\* no other variable gives a header.
C14_HeaderExtraction ==
    \A i \in Invocations :
        scope[i] # NoScope =>
            LET hs == SelectSeq(environ[i].items, C14_IsHeader)
            IN  scope[i].headers =
                    [k \in 1 .. Len(hs) |->
                        <<C14_NameBytes(hs[k].name), C14_ValueBytes(hs[k].value)>>]

\* a scope built from REQUEST_METHOD, which is left out, and HTTP_X_FOO
C14_Witness ==
    \E i \in Invocations :
        /\ scope[i] # NoScope /\ Len(environ[i].items) = 2
        /\ environ[i].items[1].name = <<"R", "E", "Q", "U", "E", "S", "T", "_", "M", "E", "T", "H", "O", "D">>
        /\ environ[i].items[2].name = HTTP_X_FOO
        /\ environ[i].items[2].value = <<"A", "_", "b">>
        /\ Len(scope[i].headers) = 1
        /\ scope[i].headers[1] = <<<<120, 45, 102, 111, 111>>, <<65, 95, 98>>>>

\* C15 (as claimed): within one invocation the response callback is called
\* at most once, whatever send() calls the callee makes.
C15_CallbackAtMostOnce ==
    \A i \in Invocations : Len(callbacks[i]) <= 1

C16_IsDisconnect(m) == m.type = DISCONNECT

\* C16: after every send(), the disconnect messages ever put on the queue
\* are exactly one if self.state is COMPLETE and none otherwise; a send() of
\* a message with more_body true puts nothing on the queue.
C16_OneDisconnectIffComplete ==
    [][\A i \in Invocations :
          SendStep(i) =>
              /\ Len(SelectSeq(enqueued'[i], C16_IsDisconnect)) =
                     (IF state'[Self(i)] = "COMPLETE" THEN 1 ELSE 0)
              /\ last'[i].more_body =>
                     (enqueued'[i] = enqueued[i]
                          /\ app_queue'[Self(i)] = app_queue[Self(i)])]_vars

\* the last send() was an accepted response.body with more_body true, after
\* another one: bytes are buffered, the state is RESPONSE, no disconnect
C16_Witness ==
    \E i \in Invocations :
        /\ Started(i) /\ last[i].type = BODY /\ last[i].more_body
        /\ last[i].exc = "none" /\ Len(sent[i]) = 2 /\ body[Self(i)] # <<>>
        /\ state[Self(i)] = "RESPONSE" /\ enqueued[i] = <<RequestOf(i)>>

\* some step of the callee of invocation i
C17_CalleeStep(i) ==
    \/ \E m \in Messages, cbRaises \in BOOLEAN : CalleeSend(i, m, cbRaises, MaxSends)
    \/ CalleeCatch(i)
    \/ CalleePropagate(i)
    \/ CalleeRaise(i)
    \/ CalleeReceive(i)
    \/ CalleeReturn(i)

\* C17: send() never waits, and wherever a started invocation that has
\* neither returned nor raised can take no step, its callee is suspended in
\* receive() on the empty queue.
C17_SuspendedOnlyInReceive ==
    \A i \in Invocations :
        /\ pc[i] # "put"
        /\ (Started(i) /\ pc[i] \notin {"returned", "raised"} /\ ~ENABLED C17_CalleeStep(i))
               => (pc[i] = "recv" /\ app_queue[Self(i)] = <<>>)

\* the callee is suspended in receive() after the send() that completed the
\* body put the disconnect and both messages were delivered
C17_Witness ==
    \E i \in Invocations :
        /\ pc[i] = "recv" /\ state[Self(i)] = "COMPLETE"
        /\ delivered[i] = <<RequestOf(i), DisconnectMessage>>
        /\ ~ENABLED C17_CalleeStep(i)

\* C18: while self.state is COMPLETE no step changes self.body, whatever
\* send() is made, and a facade that returns then returns that buffer as its
\* one chunk.
C18_BufferFrozenAfterComplete ==
    [][\A i \in Invocations :
          (Started(i) /\ state[Self(i)] = "COMPLETE")
          => /\ body'[Self(i)] = body[Self(i)]
             /\ state'[Self(i)] = "COMPLETE"
             /\ (pc'[i] = "returned" /\ pc[i] # "returned")
                    => result'[i] = <<body[Self(i)]>>]_vars

\* a response.body was sent after COMPLETE, and the facade then returned
\* the bytes buffered before it
C18_Witness ==
    \E i \in Invocations :
        /\ pc[i] = "returned" /\ state[Self(i)] = "COMPLETE"
        /\ last[i].pre = "COMPLETE" /\ last[i].type = BODY
        /\ result[i] = <<body[Self(i)]>> /\ body[Self(i)] # <<>>
====
